---- MODULE Spec2Model ----
(***************************************************************************)
(* Model of src/state.py: the State class (a sparse-looking, in fact dense *)
(* list of (bitstring, amplitude) pairs transformed by the gates x, cx,    *)
(* s, t, h), the deferred measurement marks, and the sampler run().        *)
(*                                                                         *)
(* Amplitudes.  Every amplitude the gates can produce from 1.0 and 0.0     *)
(* lies in the ring Z[w][1/sqrt 2], w = exp(i*pi/4): the gates multiply by *)
(* 1j (= w^2), by exp(1j*pi/4) (= w), by -1 (= w^4) and by 1/sqrt(2), and  *)
(* reduce_by_key adds.  An amplitude is the tuple <<c0, c1, c2, c3, k>>    *)
(* standing for (c0 + c1 w + c2 w^2 + c3 w^3) / sqrt(2)^k, kept in lowest  *)
(* terms.  The arithmetic is exact: the rounding of Python's floats is not *)
(* modelled.                                                               *)
(*                                                                         *)
(* A squared magnitude is a real of Z[sqrt 2][1/2], the tuple <<p, q, k>>  *)
(* standing for (p + q sqrt 2) / 2^k, in lowest terms.                     *)
(***************************************************************************)
EXTENDS Integers, Sequences, FiniteSets, TLC

\* ------------------------------------------------------------------ bounds
MaxQubits == 2
MaxBits == 1
MaxCalls == 5
MaxSampleCalls == 6
MaxShots == 2

\* ------------------------------------------------- exact complex arithmetic
Zero == <<0, 0, 0, 0, 0>>
One == <<1, 0, 0, 0, 0>>

\* c * sqrt(2), on the four coefficients (sqrt 2 = w - w^3)
Sqrt2Times(c) == <<c[2] - c[4], c[1] + c[3], c[2] + c[4], c[3] - c[1]>>

Even4(c) == \A i \in 1..4 : c[i] % 2 = 0

RECURSIVE Canon(_)
Canon(z) ==
    LET c == <<z[1], z[2], z[3], z[4]>>
        r == Sqrt2Times(c)
    IN  IF c = <<0, 0, 0, 0>> THEN Zero
        ELSE IF z[5] > 0 /\ Even4(r)
             THEN Canon(<<r[1] \div 2, r[2] \div 2, r[3] \div 2, r[4] \div 2, z[5] - 1>>)
             ELSE z

RECURSIVE Lift(_, _)
\* the coefficients of z over the denominator sqrt(2)^k, k >= z[5]
Lift(z, k) ==
    IF z[5] >= k THEN z
    ELSE LET r == Sqrt2Times(<<z[1], z[2], z[3], z[4]>>)
         IN  Lift(<<r[1], r[2], r[3], r[4], z[5] + 1>>, k)

\* x + y of reduce_by_key
Add(z, y) ==
    LET k == IF z[5] >= y[5] THEN z[5] ELSE y[5]
        a == Lift(z, k)
        b == Lift(y, k)
    IN  Canon(<<a[1] + b[1], a[2] + b[2], a[3] + b[3], a[4] + b[4], k>>)

\* a * 0.5: the factor of two Hadamards taken for the factor of one
MulNorm_half(z) == Canon(<<z[1], z[2], z[3], z[4], z[5] + 2>>)

\* a * norm, norm = 1 / sqrt(2)
MulNorm(z) == Canon(<<z[1], z[2], z[3], z[4], z[5] + 1>>)

\* exp(1j * pi / 4) * a
MulPhase(z) == <<-z[4], z[1], z[2], z[3], z[5]>>

\* 1j * a
MulI(z) == <<-z[3], -z[4], z[1], z[2], z[5]>>

\* (-1) * a
Neg(z) == <<-z[1], -z[2], -z[3], -z[4], z[5]>>

\* --------------------------------------------- exact reals of Z[sqrt 2][1/2]
RZero == <<0, 0, 0>>
ROne == <<1, 0, 0>>

RECURSIVE RCanon(_)
RCanon(r) ==
    IF r[1] = 0 /\ r[2] = 0 THEN RZero
    ELSE IF r[3] > 0 /\ r[1] % 2 = 0 /\ r[2] % 2 = 0
         THEN RCanon(<<r[1] \div 2, r[2] \div 2, r[3] - 1>>)
         ELSE r

RECURSIVE Pow2(_)
Pow2(k) == IF k <= 0 THEN 1 ELSE 2 * Pow2(k - 1)

RAdd(r, u) ==
    LET k == IF r[3] >= u[3] THEN r[3] ELSE u[3]
        f == Pow2(k - r[3])
        g == Pow2(k - u[3])
    IN  RCanon(<<f * r[1] + g * u[1], f * r[2] + g * u[2], k>>)

RSub(r, u) == RAdd(r, <<-u[1], -u[2], u[3]>>)

\* p + q sqrt 2 > 0
RPositive(r) ==
    LET p == r[1]
        q == r[2]
    IN  \/ p > 0 /\ q >= 0
        \/ p >= 0 /\ q > 0
        \/ p > 0 /\ q < 0 /\ p * p > 2 * q * q
        \/ p < 0 /\ q > 0 /\ 2 * q * q > p * p

RLess(r, u) == RPositive(RSub(u, r))

\* abs(a) ** 2
Abs2(z) ==
    RCanon(<<z[1] * z[1] + z[2] * z[2] + z[3] * z[3] + z[4] * z[4],
             z[1] * z[2] + z[2] * z[3] + z[3] * z[4] - z[4] * z[1],
             z[5]>>)

\* ------------------------------------------------------------ Python values
NoError == "none"
ValueErrorLength == "ValueError: bitarrays of equal length expected"
IndexError == "IndexError"
ZeroDivisionError == "ZeroDivisionError"
AssertionError == "AssertionError"
ValueErrorShots == "ValueError: Shots must be a positive integer"
ValueErrorNoMeasure == "ValueError: No measurements specified"

\* v * m for a one-element list or string: m <= 0 gives the empty sequence
Rep(v, m) == [i \in 1..m |-> v]

\* Python accepts the index j on a sequence of length n
InRange(n, j) == -n <= j /\ j < n

\* b[j], for an accepted index (a negative j counts from the end)
At(b, j) ==
    IF ~InRange(Len(b), j) THEN 0
    ELSE IF j >= 0 THEN b[j + 1] ELSE b[Len(b) + j + 1]

\* bitarray(format(i, f"0{n_qubits}b")): qubit 0 is the most significant bit
Format(i, n) == [p \in 1..n |-> (i \div Pow2(n - p)) % 2]

\* b.to01() as the number it spells
RECURSIVE to01(_)
to01(b) == IF b = <<>> THEN 0 ELSE 2 * to01(SubSeq(b, 1, Len(b) - 1)) + b[Len(b)]

\* ------------------------------------------------------- set_bit and flip
set_bit_exc(b, i) == IF InRange(Len(b), i) THEN NoError ELSE IndexError

set_bit(b, i, v) ==
    IF ~InRange(Len(b), i) THEN b
    ELSE [b EXCEPT ![IF i >= 0 THEN i + 1 ELSE Len(b) + i + 1] = v]

\* the mask "0" * i + "1" + "0" * (len(x) - i - 1)
flip_mask(b, i) == Rep(0, i) \o <<1>> \o Rep(0, Len(b) - i - 1)

\* x ^ mask needs operands of equal length
flip_exc(b, i) == IF Len(flip_mask(b, i)) = Len(b) THEN NoError ELSE ValueErrorLength

flip(b, i) ==
    IF Len(flip_mask(b, i)) # Len(b) THEN b
    ELSE [p \in 1..Len(b) |-> (b[p] + flip_mask(b, i)[p]) % 2]

\* ---------------------------------------------- the lazy functional Sequence
(***************************************************************************)
(* self.state is a Sequence of the functional library: a base list plus    *)
(* the transformations applied to it, evaluated only when it is iterated.  *)
(* Its value is the list `items` it evaluates to, or, when a transformation*)
(* raises on some entry, the exception every evaluation ends in (`raises`).*)
(* den2 is the real d such that every amplitude of the Sequence is its     *)
(* items' amplitude divided by sqrt(d): d is 1 until run divides a trial's *)
(* amplitudes by sqrt(prob), a number that leaves the ring.                *)
(***************************************************************************)
seq(items) == [items |-> items, raises |-> NoError, den2 |-> ROne]

Raising(exc) == [items |-> <<>>, raises |-> exc, den2 |-> ROne]

\* the first position of excs that holds an exception, 0 when none does
FirstBad(excs) ==
    LET bad == {i \in DOMAIN excs : excs[i] # NoError}
    IN  IF bad = {} THEN 0 ELSE CHOOSE i \in bad : \A k \in bad : i <= k

\* sq.smap(f): vals[i] is f on the i-th entry and excs[i] what f raises there;
\* iterating stops at the first entry on which f raises
smap(sq, vals, excs) ==
    IF sq.raises # NoError THEN sq
    ELSE IF FirstBad(excs) # 0 THEN Raising(excs[FirstBad(excs)])
    ELSE [sq EXCEPT !.items = vals]

RECURSIVE flatten_items(_)
flatten_items(ls) == IF ls = <<>> THEN <<>> ELSE Head(ls) \o flatten_items(Tail(ls))

flatten(sq) == IF sq.raises # NoError THEN sq ELSE [sq EXCEPT !.items = flatten_items(@)]

\* the position of key k in acc, 0 when absent
KeyPos(acc, k) ==
    IF \E i \in DOMAIN acc : acc[i][1] = k
    THEN CHOOSE i \in DOMAIN acc : acc[i][1] = k
    ELSE 0

RECURSIVE reduce_items(_, _)
\* a dict filled in iteration order: a key keeps the place of its first occurrence
reduce_items(items, acc) ==
    IF items = <<>> THEN acc
    ELSE LET e == Head(items)
             at == KeyPos(acc, e[1])
         IN  reduce_items(Tail(items),
                 IF at = 0 THEN Append(acc, e)
                 ELSE [acc EXCEPT ![at] = <<e[1], Add(acc[at][2], e[2])>>])

\* the merge left out: the flattened list as it is
reduce_by_key_none(sq) == sq

reduce_by_key(sq) ==
    IF sq.raises # NoError THEN sq ELSE [sq EXCEPT !.items = reduce_items(@, <<>>)]

RECURSIVE insert_sorted(_, _)
\* e after every entry whose key is not greater: sorted() is stable
insert_sorted(done_items, e) ==
    IF done_items = <<>> THEN <<e>>
    ELSE IF to01(Head(done_items)[1]) <= to01(e[1])
         THEN <<Head(done_items)>> \o insert_sorted(Tail(done_items), e)
         ELSE <<e>> \o done_items

RECURSIVE sorted_items(_)
sorted_items(items) ==
    IF items = <<>> THEN <<>>
    ELSE insert_sorted(sorted_items(SubSeq(items, 1, Len(items) - 1)), items[Len(items)])

sorted(sq) == IF sq.raises # NoError THEN sq ELSE [sq EXCEPT !.items = sorted_items(@)]

\* ------------------------------------------------------- the gates' lambdas
x_lambda(b, a, j) == <<flip(b, j), a>>
x_exc(b, j) == flip_exc(b, j)

cx_lambda(b, a, j, k) == <<IF At(b, j) = 0 THEN b ELSE flip(b, k), a>>
cx_exc(b, j, k) ==
    IF ~InRange(Len(b), j) THEN IndexError
    ELSE IF At(b, j) = 0 THEN NoError ELSE flip_exc(b, k)

s_lambda(b, a, j) == <<b, IF At(b, j) = 0 THEN a ELSE MulI(a)>>
s_exc(b, j) == IF InRange(Len(b), j) THEN NoError ELSE IndexError

t_lambda(b, a, j) == <<b, IF At(b, j) = 0 THEN a ELSE MulPhase(a)>>
t_exc(b, j) == IF InRange(Len(b), j) THEN NoError ELSE IndexError

\* the sign (-1) ** b[j] left out
h_lambda_unsigned(b, a, j) ==
    << <<set_bit(b, j, 0), MulNorm(a)>>, <<set_bit(b, j, 1), MulNorm(a)>> >>

h_lambda(b, a, j) ==
    << <<set_bit(b, j, 0), MulNorm(a)>>,
       <<set_bit(b, j, 1), IF At(b, j) = 0 THEN MulNorm(a) ELSE Neg(MulNorm(a))>> >>
h_exc(b, j) == set_bit_exc(b, j)

x_gate(sq, j) ==
    smap(sq, [i \in DOMAIN sq.items |-> x_lambda(sq.items[i][1], sq.items[i][2], j)],
             [i \in DOMAIN sq.items |-> x_exc(sq.items[i][1], j)])

cx_gate(sq, j, k) ==
    smap(sq, [i \in DOMAIN sq.items |-> cx_lambda(sq.items[i][1], sq.items[i][2], j, k)],
             [i \in DOMAIN sq.items |-> cx_exc(sq.items[i][1], j, k)])

s_gate(sq, j) ==
    smap(sq, [i \in DOMAIN sq.items |-> s_lambda(sq.items[i][1], sq.items[i][2], j)],
             [i \in DOMAIN sq.items |-> s_exc(sq.items[i][1], j)])

t_gate(sq, j) ==
    smap(sq, [i \in DOMAIN sq.items |-> t_lambda(sq.items[i][1], sq.items[i][2], j)],
             [i \in DOMAIN sq.items |-> t_exc(sq.items[i][1], j)])

h_gate(sq, j) ==
    reduce_by_key(flatten(
        smap(sq, [i \in DOMAIN sq.items |-> h_lambda(sq.items[i][1], sq.items[i][2], j)],
                 [i \in DOMAIN sq.items |-> h_exc(sq.items[i][1], j)])))

\* 1.0 if i == 1: the amplitude on the second basis state
initial_items_second(n) ==
    [i \in 1..Pow2(n) |-> <<Format(i - 1, n), IF i - 1 = 1 THEN One ELSE Zero>>]

\* the list State.__init__ builds: every basis state, 1.0 on the first
initial_items(n) == [i \in 1..Pow2(n) |-> <<Format(i - 1, n), IF i - 1 = 0 THEN One ELSE Zero>>]

\* -------------------------------------------------------------- the sampler
\* sum(abs(a) ** 2 for b, a in items), over the numerators
RECURSIVE sum_abs2(_)
sum_abs2(items) ==
    IF items = <<>> THEN RZero ELSE RAdd(Abs2(Head(items)[2]), sum_abs2(Tail(items)))

\* the entries of items whose bit `qubit` is v
with_bit(items, qubit, v) == SelectSeq(items, LAMBDA e : At(e[1], qubit) = v)

\* A probability is the fraction num / den of two reals, den > 0.
\* prob_0 = sum(abs(a) ** 2 for b, a in current_state if not b[qubit])
prob_0(sq, qubit) == [num |-> sum_abs2(with_bit(sq.items, qubit, 0)), den |-> sq.den2]

\* prob_1 = prob_0: the complement forgotten
prob_1_same(p0) == p0

\* prob_1 = 1.0 - prob_0
prob_1(p0) == [num |-> RSub(p0.den, p0.num), den |-> p0.den]

\* prob > 0
positive(p) == RPositive(p.num)

\* int(random.random() >= 0.5): a fair coin whatever prob_0 is
measurements_coin(p0) == {0, 1}

\* int(random.random() >= prob_0) for the draws of [0, 1): 0 needs a draw
\* below prob_0, 1 a draw at or above it
measurements(p0) ==
    {m \in {0, 1} : (m = 0 => positive(p0)) /\ (m = 1 => RLess(p0.num, p0.den))}

\* the entries the comprehension keeps: the measured bit, and prob > 0
kept(items, qubit, measurement, p) ==
    SelectSeq(items, LAMBDA e : At(e[1], qubit) = measurement /\ positive(p))

\* the probability the kept amplitudes are divided by the square root of
divisor(p0, measurement) == IF measurement = 0 THEN p0 ELSE prob_1(p0)

\* a / sqrt(p) of a kept entry raises when p is 0
collapse_exc(sq, qubit, measurement) ==
    LET p == divisor(prob_0(sq, qubit), measurement)
    IN  IF kept(sq.items, qubit, measurement, p) # <<>> /\ ~positive(p)
        THEN ZeroDivisionError ELSE NoError

\* seq(new_state): the kept entries, each amplitude divided by sqrt(p);
\* (a / sqrt(d)) / sqrt(n / d) = a / sqrt(n)
collapse(sq, qubit, measurement) ==
    LET p == divisor(prob_0(sq, qubit), measurement)
        new_state == kept(sq.items, qubit, measurement, p)
    IN  [items |-> new_state, raises |-> NoError,
         den2 |-> IF new_state = <<>> THEN ROne ELSE p.num]

\* what iterating the trial's Sequence and indexing with `qubit` raises
measure_exc(sq, n, qubit) ==
    IF sq.raises # NoError THEN sq.raises
    ELSE IF ~InRange(n, qubit) THEN IndexError
    ELSE NoError

\* shots < 0 for shots <= 0
run_exc_negative(sh, marked, flag) ==
    IF sh < 0 THEN ValueErrorShots
    ELSE IF marked = {} /\ ~flag THEN ValueErrorNoMeasure
    ELSE NoError

\* the checks run makes before it samples
run_exc(sh, marked, flag) ==
    IF sh <= 0 THEN ValueErrorShots
    ELSE IF marked = {} /\ ~flag THEN ValueErrorNoMeasure
    ELSE NoError

\* sorted(list(measurement_qubits))
RECURSIVE sorted_list(_)
sorted_list(S) ==
    IF S = {} THEN <<>>
    ELSE LET lo == CHOOSE v \in S : \A w \in S : v <= w
         IN  <<lo>> \o sorted_list(S \ {lo})

qubits_of(flag, marked, n) ==
    IF flag THEN [i \in 1..n |-> i - 1] ELSE sorted_list(marked)

\* "".join(result_bits) whatever the flag
result_of_all(flag, bits, qubits) == bits

\* the result string, one character per element
result_of(flag, bits, qubits) ==
    IF flag THEN bits ELSE [i \in DOMAIN qubits |-> At(bits, qubits[i])]

\* counts[result] = counts.get(result, 0) + 1
count_up(cnt, result) ==
    [r \in DOMAIN cnt \cup {result} |->
        (IF r \in DOMAIN cnt THEN cnt[r] ELSE 0) + (IF r = result THEN 1 ELSE 0)]

NoCounts == [r \in {} |-> 0]

\* Python's order on strings of "0" and "1"
RECURSIVE str_less(_, _)
str_less(u, w) ==
    IF u = <<>> THEN w # <<>>
    ELSE IF w = <<>> THEN FALSE
    ELSE IF Head(u) # Head(w) THEN Head(u) = "0"
    ELSE str_less(Tail(u), Tail(w))

\* dict(sorted(counts.items())), as the list of its items in order
RECURSIVE sorted_counts(_)
sorted_counts(cnt) ==
    IF DOMAIN cnt = {} THEN <<>>
    ELSE LET lo == CHOOSE r \in DOMAIN cnt : \A w \in DOMAIN cnt : w = r \/ str_less(r, w)
         IN  <<<<lo, cnt[lo]>>>> \o sorted_counts([r \in DOMAIN cnt \ {lo} |-> cnt[r]])

\* ------------------------------------------------------------------- state
VARIABLES
    pc,                 \* "start": no State yet; "ready": between calls;
                        \* "loop", "measure": inside run
    n_qubits, n_bits, state, cbits, measurement_qubits, measure_all_flag,
    err,                \* the exception the last call raised
    ret,                \* the counts the last call returned, as sorted items
    ncalls,             \* calls made on the State
    limit,              \* the number of calls the caller makes at most
    shots, done, qubits_to_measure, counts, temp_state, result_bits, qi, result,
    in_range,           \* history: every gate call so far had its indices in [0, n_qubits)
    cx_distinct         \* history: every cx call so far had control # target

object == <<n_qubits, n_bits, state, cbits, measurement_qubits, measure_all_flag>>
locals == <<shots, done, qubits_to_measure, counts, temp_state, result_bits, qi, result>>
history == <<in_range, cx_distinct>>
vars == <<pc, object, err, ret, ncalls, limit, locals, history>>

self == [n_qubits |-> n_qubits, n_bits |-> n_bits, state |-> state, cbits |-> cbits,
         measurement_qubits |-> measurement_qubits, measure_all_flag |-> measure_all_flag]

NoState == [n_qubits |-> 0, n_bits |-> 0, state |-> seq(<<>>), cbits |-> <<>>,
            measurement_qubits |-> {}, measure_all_flag |-> FALSE]

\* State.copy: a new State whose fields are copies of obj's
copy(obj) ==
    [n_qubits |-> obj.n_qubits, n_bits |-> obj.n_bits, state |-> obj.state,
     cbits |-> obj.cbits, measurement_qubits |-> obj.measurement_qubits,
     measure_all_flag |-> obj.measure_all_flag]

QubitArgs == (-1) .. MaxQubits
ShotArgs == (-1) .. MaxShots

Valid(j) == 0 <= j /\ j < n_qubits

NoLocals ==
    /\ shots = 0 /\ done = 0 /\ qubits_to_measure = <<>> /\ counts = NoCounts
    /\ temp_state = NoState /\ result_bits = <<>> /\ qi = 0 /\ result = <<>>

ClearLocals ==
    /\ shots' = 0 /\ done' = 0 /\ qubits_to_measure' = <<>> /\ counts' = NoCounts
    /\ temp_state' = NoState /\ result_bits' = <<>> /\ qi' = 0 /\ result' = <<>>

Fresh ==
    /\ pc = "start"
    /\ n_qubits = 0 /\ n_bits = 0 /\ state = seq(<<>>) /\ cbits = <<>>
    /\ measurement_qubits = {} /\ measure_all_flag = FALSE
    /\ err = NoError /\ ret = <<>> /\ ncalls = 0
    /\ NoLocals
    /\ in_range = TRUE /\ cx_distinct = TRUE

Init == Fresh /\ limit = MaxCalls

\* State(n, nb)
State_init(n, nb) ==
    /\ pc = "start"
    /\ IF n > 0 /\ nb >= 0
       THEN /\ n_qubits' = n
            /\ n_bits' = nb
            /\ state' = seq(initial_items(n))
            /\ cbits' = Rep(0, nb)
            /\ measurement_qubits' = {}
            /\ measure_all_flag' = FALSE
            /\ pc' = "ready"
            /\ err' = NoError
       ELSE /\ err' = AssertionError
            /\ UNCHANGED <<pc, object>>
    /\ UNCHANGED <<ret, ncalls, limit, locals, history>>

\* what every gate and marking call shares: it returns self, raising nothing
Call ==
    /\ pc = "ready"
    /\ ncalls < limit
    /\ ncalls' = ncalls + 1
    /\ err' = NoError
    /\ ret' = <<>>
    /\ UNCHANGED <<pc, n_qubits, n_bits, cbits, limit, locals>>

x(j) ==
    /\ Call
    /\ state' = x_gate(state, j)
    /\ in_range' = (in_range /\ Valid(j))
    /\ UNCHANGED <<measurement_qubits, measure_all_flag, cx_distinct>>

cx(j, k) ==
    /\ Call
    /\ state' = cx_gate(state, j, k)
    /\ in_range' = (in_range /\ Valid(j) /\ Valid(k))
    /\ cx_distinct' = (cx_distinct /\ j # k)
    /\ UNCHANGED <<measurement_qubits, measure_all_flag>>

s(j) ==
    /\ Call
    /\ state' = s_gate(state, j)
    /\ in_range' = (in_range /\ Valid(j))
    /\ UNCHANGED <<measurement_qubits, measure_all_flag, cx_distinct>>

t(j) ==
    /\ Call
    /\ state' = t_gate(state, j)
    /\ in_range' = (in_range /\ Valid(j))
    /\ UNCHANGED <<measurement_qubits, measure_all_flag, cx_distinct>>

h(j) ==
    /\ Call
    /\ state' = h_gate(state, j)
    /\ in_range' = (in_range /\ Valid(j))
    /\ UNCHANGED <<measurement_qubits, measure_all_flag, cx_distinct>>

measure(j) ==
    /\ Call
    /\ measurement_qubits' = measurement_qubits \cup {j}
    /\ UNCHANGED <<state, measure_all_flag, history>>

measure_all ==
    /\ Call
    /\ measure_all_flag' = TRUE
    /\ UNCHANGED <<state, measurement_qubits, history>>

\* str(state): sorts self.state, then iterates it
State_str ==
    /\ pc = "ready"
    /\ ncalls < limit
    /\ ncalls' = ncalls + 1
    /\ state' = sorted(state)
    /\ err' = state.raises
    /\ ret' = <<>>
    /\ UNCHANGED <<pc, n_qubits, n_bits, cbits, measurement_qubits, measure_all_flag,
                   limit, locals, history>>

\* run(state, sh), up to the loop over the shots
run(sh) ==
    /\ pc = "ready"
    /\ ncalls < limit
    /\ ncalls' = ncalls + 1
    /\ ret' = <<>>
    /\ err' = run_exc(sh, measurement_qubits, measure_all_flag)
    /\ IF run_exc(sh, measurement_qubits, measure_all_flag) # NoError
       THEN UNCHANGED <<pc, locals>>
       ELSE /\ pc' = "loop"
            /\ shots' = sh
            /\ done' = 0
            /\ qubits_to_measure' = qubits_of(measure_all_flag, measurement_qubits, n_qubits)
            /\ counts' = NoCounts
            /\ UNCHANGED <<temp_state, result_bits, qi, result>>
    /\ UNCHANGED <<object, limit, history>>

\* for _ in range(shots): temp_state = state.copy(); result_bits = ["0"] * n_qubits
shot_begin ==
    /\ pc = "loop" /\ done < shots
    /\ temp_state' = copy(self)
    /\ result_bits' = Rep("0", n_qubits)
    /\ qi' = 1
    /\ pc' = "measure"
    /\ UNCHANGED <<object, err, ret, ncalls, limit, shots, done, qubits_to_measure,
                   counts, result, history>>

\* temp_state = state in place of state.copy(): the collapsed list goes to the
\* State run was given
measure_qubit_shared(m) ==
    /\ pc = "measure" /\ qi <= Len(qubits_to_measure)
    /\ LET qubit == qubits_to_measure[qi]
           current_state == temp_state.state
           exc == measure_exc(current_state, n_qubits, qubit)
       IN  /\ exc = NoError
           /\ m \in measurements(prob_0(current_state, qubit))
           /\ collapse_exc(current_state, qubit, m) = NoError
           /\ result_bits' =
                 [result_bits EXCEPT
                    ![IF qubit >= 0 THEN qubit + 1 ELSE n_qubits + qubit + 1] =
                        IF m = 0 THEN "0" ELSE "1"]
           /\ temp_state' = [temp_state EXCEPT !.state = collapse(current_state, qubit, m)]
           /\ state' = collapse(current_state, qubit, m)
           /\ qi' = qi + 1
    /\ UNCHANGED <<pc, err, shots, done, qubits_to_measure, counts, result, n_qubits, n_bits,
                   cbits, measurement_qubits, measure_all_flag, ret, ncalls, limit, history>>

\* one pass of `for qubit in qubits_to_measure`, the draw giving measurement m;
\* the collapsed list goes to the copy, temp_state.state
measure_qubit(m) ==
    /\ pc = "measure" /\ qi <= Len(qubits_to_measure)
    /\ LET qubit == qubits_to_measure[qi]
           current_state == temp_state.state
           exc == measure_exc(current_state, n_qubits, qubit)
       IN  IF exc # NoError
           THEN /\ err' = exc /\ pc' = "ready" /\ ClearLocals
           ELSE /\ m \in measurements(prob_0(current_state, qubit))
                /\ IF collapse_exc(current_state, qubit, m) # NoError
                   THEN /\ err' = collapse_exc(current_state, qubit, m)
                        /\ pc' = "ready" /\ ClearLocals
                   ELSE /\ result_bits' =
                              [result_bits EXCEPT
                                 ![IF qubit >= 0 THEN qubit + 1 ELSE n_qubits + qubit + 1] =
                                     IF m = 0 THEN "0" ELSE "1"]
                        /\ temp_state' =
                              [temp_state EXCEPT !.state = collapse(current_state, qubit, m)]
                        /\ qi' = qi + 1
                        /\ UNCHANGED <<pc, err, shots, done, qubits_to_measure, counts, result>>
    /\ UNCHANGED <<object, ret, ncalls, limit, history>>

\* the result string of the shot, counted
shot_end ==
    /\ pc = "measure" /\ qi > Len(qubits_to_measure)
    /\ result' = result_of(measure_all_flag, result_bits, qubits_to_measure)
    /\ counts' = count_up(counts, result')
    /\ done' = done + 1
    /\ pc' = "loop"
    /\ UNCHANGED <<object, err, ret, ncalls, limit, shots, qubits_to_measure,
                   temp_state, result_bits, qi, history>>

\* return dict(sorted(counts.items()))
run_return ==
    /\ pc = "loop" /\ done = shots
    /\ ret' = sorted_counts(counts)
    /\ pc' = "ready"
    /\ ClearLocals
    /\ UNCHANGED <<object, err, ncalls, limit, history>>

Next ==
    \/ \E n \in 0..MaxQubits, nb \in (-1)..MaxBits : State_init(n, nb)
    \/ \E j \in QubitArgs : x(j)
    \/ \E j \in QubitArgs, k \in QubitArgs : cx(j, k)
    \/ \E j \in QubitArgs : s(j)
    \/ \E j \in QubitArgs : t(j)
    \/ \E j \in QubitArgs : h(j)
    \/ \E j \in QubitArgs : measure(j)
    \/ measure_all
    \/ State_str
    \/ \E sh \in ShotArgs : run(sh)
    \/ shot_begin
    \/ \E m \in {0, 1} : measure_qubit(m)
    \/ shot_end
    \/ run_return

Spec == Init /\ [][Next]_vars

\* A caller that prepares a circuit with the gates, marks every qubit and samples:
\* fewer kinds of call, so more of them.
InitSample == Fresh /\ limit = MaxSampleCalls

QubitIndices == 0 .. (MaxQubits - 1)

NextSample ==
    \/ \E n \in 1..MaxQubits : State_init(n, 0)
    \/ \E j \in QubitIndices : x(j)
    \/ \E j \in QubitIndices, k \in QubitIndices : cx(j, k)
    \/ \E j \in QubitIndices : s(j)
    \/ \E j \in QubitIndices : t(j)
    \/ \E j \in QubitIndices : h(j)
    \/ measure_all
    \/ \E sh \in 1..MaxShots : run(sh)
    \/ shot_begin
    \/ \E m \in {0, 1} : measure_qubit(m)
    \/ shot_end
    \/ run_return

SpecSample == InitSample /\ [][NextSample]_vars

\* ------------------------------------------------------------- properties
\* b.to01(), one character per element
chars(b) == [i \in DOMAIN b |-> IF b[i] = 0 THEN "0" ELSE "1"]

Entries(sq) == {sq.items[i] : i \in DOMAIN sq.items}

\* no two entries share a BasisState
UniqueKeys(sq) == \A i, k \in DOMAIN sq.items : sq.items[i][1] = sq.items[k][1] => i = k

\* the squared magnitudes of the amplitudes sum to 1
Normalized(sq) == sq.raises = NoError /\ sum_abs2(sq.items) = sq.den2

Constructed == pc # "start"

InRun == pc \in {"loop", "measure"}

\* the keys of the counts run returned
Reported == {ret[i][1] : i \in DOMAIN ret}

RECURSIVE total(_)
total(items) == IF items = <<>> THEN 0 ELSE Head(items)[2] + total(Tail(items))

\* C1: run never changes the State it is given (map, register, marked set, flag),
\* and every shot starts from the prepared map.
C1_RunLeavesStateUntouched ==
    [][/\ (InRun \/ InRun') => UNCHANGED object
       /\ (pc' = "measure" /\ qi' = 1) => temp_state'.state = state']_vars

\* a run of two shots over an individually marked qubit returned two outcomes
C1_Witness ==
    /\ pc = "ready" /\ Len(ret) = 2 /\ total(ret) = 2
    /\ measurement_qubits # {} /\ ~measure_all_flag /\ n_bits = 1

\* C2: a gate or measure call with an index outside [0, n_qubits) fails at the
\* call and leaves the map and the plan as they were.
C2_OutOfRangeCallFails ==
    [][\A j \in QubitArgs :
          (/\ ~Valid(j)
           /\ \/ x(j) \/ s(j) \/ t(j) \/ h(j) \/ measure(j)
              \/ \E k \in QubitArgs : cx(j, k) \/ cx(k, j))
          => /\ err' # NoError
             /\ UNCHANGED <<state, measurement_qubits, measure_all_flag>>]_vars

\* C3: run with shots <= 0 fails, run with nothing marked fails, State(0, nb)
\* fails; a failing run returns no counts and leaves the State as it was.
C3_InvalidInputsRejected ==
    [][/\ \A sh \in ShotArgs :
            run(sh) /\ sh <= 0
            => err' = ValueErrorShots /\ ret' = <<>> /\ pc' = "ready" /\ UNCHANGED object
       /\ \A sh \in ShotArgs :
            run(sh) /\ sh > 0 /\ measurement_qubits = {} /\ ~measure_all_flag
            => err' = ValueErrorNoMeasure /\ ret' = <<>> /\ pc' = "ready" /\ UNCHANGED object
       /\ \A nb \in (-1)..MaxBits :
            State_init(0, nb) => err' = AssertionError /\ pc' = "start"]_vars

\* a run with shots > 0 failed on a State that gates were applied to and nothing marked
C3_Witness == err = ValueErrorNoMeasure /\ ncalls >= 2 /\ pc = "ready" /\ ret = <<>>

\* some entry of the prepared map has this bit string and a non-zero amplitude
HasAmplitude(key) ==
    \E i \in DOMAIN state.items : chars(state.items[i][1]) = key /\ state.items[i][2] # Zero

\* the 2-qubit State after h(0), cx(0, 1)
BellState == cx_gate(h_gate(seq(initial_items(2)), 0), 0, 1)

\* the 2-qubit State after x(0), x(0), x(0)
TripleX == x_gate(x_gate(x_gate(seq(initial_items(2)), 0), 0), 0)

Scenarios ==
    /\ (n_qubits = 2 /\ state = BellState /\ measure_all_flag /\ ret # <<>>)
       => Reported \subseteq {<<"0", "0">>, <<"1", "1">>}
    /\ (n_qubits = 2 /\ state = TripleX /\ measure_all_flag /\ ret # <<>> /\ total(ret) = 1)
       => ret = << << <<"1", "0">>, 1 >> >>

\* C4 as stated: with measure_all, every key run returns is the bit string of a
\* basis state with a non-zero amplitude in the prepared map.
C4_OnlyPossibleOutcomes ==
    /\ (measure_all_flag /\ ret # <<>>) => \A key \in Reported : HasAmplitude(key)
    /\ Scenarios

\* C4, amended: the same for a prepared map whose squared magnitudes sum to 1.
C4_OnlyPossibleOutcomesNormalized ==
    /\ (measure_all_flag /\ ret # <<>> /\ Normalized(state))
       => \A key \in Reported : HasAmplitude(key)
    /\ Scenarios

\* two shots on the Bell pair returned both "00" and "11"
C4_Witness ==
    /\ n_qubits = 2 /\ state = BellState /\ measure_all_flag
    /\ Reported = {<<"0", "0">>, <<"1", "1">>}

\* C5: after any sequence of gate calls with indices in range and cx control
\* different from target, the squared magnitudes sum to 1.
C5_Normalization == (Constructed /\ in_range /\ cx_distinct) => Normalized(state)

\* such a sequence gave at least two non-zero amplitudes, one of them off the
\* real and imaginary axes
C5_Witness ==
    /\ Constructed /\ in_range /\ cx_distinct /\ state.raises = NoError
    /\ Cardinality({i \in DOMAIN state.items : state.items[i][2] # Zero}) >= 2
    /\ \E i \in DOMAIN state.items : state.items[i][2][2] # 0

\* the index the string's k-th character stands for: the k-th smallest of the marked set
kth(S, k) == CHOOSE v \in S : Cardinality({w \in S : w < v}) = k - 1

ResultLength == IF measure_all_flag THEN n_qubits ELSE Cardinality(measurement_qubits)

\* C6: with the flag set a result has n_qubits characters, the i-th the outcome
\* recorded for qubit i; without it, one character per marked qubit, the k-th
\* the outcome recorded for the k-th smallest marked index.
C6_ResultShape ==
    /\ (pc = "loop" /\ done > 0)
       => /\ Len(result) = ResultLength
          /\ measure_all_flag => \A i \in 1..n_qubits : result[i] = result_bits[i]
          /\ ~measure_all_flag
             => \A k \in 1..Cardinality(measurement_qubits) :
                   result[k] = At(result_bits, kth(measurement_qubits, k))
          /\ \A key \in DOMAIN counts : Len(key) = ResultLength
    /\ \A key \in Reported : Len(key) = ResultLength

\* a shot over the marked set {1} of a 2-qubit State recorded "1"
C6_Witness ==
    /\ pc = "loop" /\ done > 0 /\ ~measure_all_flag /\ n_qubits = 2
    /\ measurement_qubits = {1} /\ result = <<"1">>

TwiceX(j) == x_gate(x_gate(state, j), j)
TwiceH(j) == h_gate(h_gate(state, j), j)

\* C7 as stated: in every state gate calls reach, x(j) twice and h(j) twice give
\* back the entries of the map.
C7_Involutions ==
    (Constructed /\ state.raises = NoError)
    => \A j \in 0..(n_qubits - 1) :
          /\ TwiceX(j).items = state.items
          /\ Entries(TwiceH(j)) = Entries(state)

\* C7, amended: x(j) twice in every state; h(j) twice in every state reached by
\* gate calls with indices in range and cx control different from target.
C7_InvolutionsWithinContract ==
    (Constructed /\ state.raises = NoError)
    => \A j \in 0..(n_qubits - 1) :
          /\ TwiceX(j).items = state.items
          /\ (in_range /\ cx_distinct)
             => Entries(TwiceH(j)) = Entries(state) /\ Len(TwiceH(j).items) = Len(state.items)

\* a superposition reached by three or more such calls
C7_Witness ==
    /\ Constructed /\ state.raises = NoError
    /\ in_range /\ cx_distinct /\ ncalls >= 3
    /\ Cardinality({i \in DOMAIN state.items : state.items[i][2] # Zero}) >= 2

Zeros == Rep(0, n_qubits)

JustConstructed == pc = "ready" /\ ncalls = 0

\* C8 as stated: after construction the map is the single entry (0...0, 1.0).
C8_SingleEntry == JustConstructed => state.items = << <<Zeros, One>> >>

\* C8, amended: after construction the map has one entry for each of the
\* 2^n_qubits basis states, 1.0 on 0...0 and 0.0 on every other.
C8_DenseInitialMap ==
    JustConstructed
    => /\ state.raises = NoError
       /\ Len(state.items) = Pow2(n_qubits)
       /\ {e[1] : e \in Entries(state)} = [1..n_qubits -> {0, 1}]
       /\ \A e \in Entries(state) : e[2] = IF e[1] = Zeros THEN One ELSE Zero

C8_Witness == JustConstructed /\ n_qubits = 2 /\ n_bits = 1

KeysBounded == UniqueKeys(state) /\ Len(state.items) <= Pow2(n_qubits)

\* C9 as stated: after gate calls with indices in range, cx on any pair, no two
\* entries share a BasisState and there are at most 2^n_qubits entries.
C9_UniqueKeys == (Constructed /\ in_range) => state.raises = NoError /\ KeysBounded

\* C9, amended: the same when every cx had control different from target.
C9_UniqueKeysDistinctCx ==
    (Constructed /\ in_range /\ cx_distinct) => state.raises = NoError /\ KeysBounded

\* three or more such calls left every basis state of two qubits a non-zero amplitude
C9_Witness ==
    /\ Constructed /\ in_range /\ cx_distinct /\ n_qubits = 2 /\ ncalls >= 3
    /\ state.raises = NoError
    /\ \A i \in DOMAIN state.items : state.items[i][2] # Zero

Measured == qubits_to_measure[qi - 1]

\* C10: for a normalized prepared state, after each measurement step of a shot
\* every entry left in the trial's map has the measured bit equal to the
\* recorded outcome, the squared magnitudes sum to 1, and nothing was divided
\* by a zero probability.
C10_CollapseKeepsTrialValid ==
    /\ err # ZeroDivisionError
    /\ (pc = "measure" /\ qi > 1 /\ Normalized(state))
       => /\ \A e \in Entries(temp_state.state) :
                chars(<<At(e[1], Measured)>>) = <<At(result_bits, Measured)>>
          /\ Normalized(temp_state.state)

\* the outcome 1 of probability 1/2 was recorded and the trial's map renormalized
C10_Witness ==
    /\ pc = "measure" /\ qi > 1 /\ Normalized(state)
    /\ At(result_bits, Measured) = "1"
    /\ temp_state.state.den2 = <<1, 0, 1>>

====
